---- MODULE Spec2Model ----
(***************************************************************************)
(* dbaas_prometheus_exporter.py: the startup validation, the poll loop     *)
(* fetch_metrics, the nine labelled gauges and the pull endpoint.          *)
(*                                                                         *)
(* A Python str is the sequence of its characters ("A,B" is                *)
(* <<"A", ",", "B">>), an optional value is a sequence of length at most   *)
(* one (None is <<>>), a JSON document is a tagged record. In a URL, a     *)
(* header or a signed message a run of characters that holds no delimiter  *)
(* is one element ("/v2/x?ab=1" is <<"/", "v2", "/", "x", "?", "a", "b",   *)
(* "=", "1">>), and a bytes value is the sequence of its bytes, an ASCII   *)
(* byte written as its character.                                          *)
(***************************************************************************)
EXTENDS Integers, Sequences, FiniteSets, TLC

VARIABLES
    environ,         \* os.environ: the variables that are set, each a str
    pc,              \* the main thread's position
    database_names,  \* the list split from database_names_str (line 34)
    serverOpen,      \* start_http_server(8080) has been called
    it,              \* the for loop's iterator: how many entries it has yielded
    database_name,   \* the loop variable of line 119 (None before the first entry)
    response,        \* the response of line 124, until its iteration or cycle ends
    latest,          \* latest_disk_usage .. latest_net_receive (lines 130-138)
    g,               \* which of the nine writes of lines 141-149 comes next
    exc,             \* the exception raised inside the try block
    gauges,          \* per Gauge, its children: label value -> value
    cycle_log,       \* the records logged since the cycle began
    requested,       \* the database of every request sent since the cycle began
    before,          \* gauges and written when the cycle's last request was sent
    written,         \* per Gauge, label value -> the last value set() stored
    scraped,         \* the series of the scrape answered since the loop's last step
    now,             \* time.time(), in ticks of 1/TicksPerSecond second
    auth,            \* the ExoscaleV2Auth object of line 109 (None before it)
    last_request,    \* the request prepared last, with its headers
    signing,         \* the locals of the last auth(request) call: the time it read,
                     \* expiration_ts and msg
    polled           \* per database, the nine values of its last poll that reached
                     \* line 151

vars == <<environ, pc, database_names, serverOpen, it, database_name, response,
          latest, g, exc, gauges, cycle_log, requested, before, written, scraped,
          now, auth, last_request, signing, polled>>

---------------------------------------------------------------------------
(* Bounds of the model. *)

\* The rows of a metric in a response are at most this many.
MaxRows == 2

\* The two sets of values the remote API reports for a database.
Templates == {1, 2}

\* The clock is read in ticks, this many to the second.
TicksPerSecond == 2

\* The clock stops after this many ticks.
MaxNow == 2

\* The query string of a request to sign has at most this many fields.
MaxParams == 3

---------------------------------------------------------------------------
(* Python values. *)

None == <<>>
Some(v) == <<v>>

\* "A,B,C", "A,A" and the other strs of the model, as character sequences.
StrABC == <<"A", ",", "B", ",", "C">>
StrAA == <<"A", ",", "A">>
StrAB == <<"A", ",", "B">>
StrA == <<"A">>
StrKey == <<"k">>
StrSecret == <<"s">>
EmptyStr == <<>>

\* str.find: the first index of character c in s, 0 when there is none.
Find(s, c) ==
    IF \E i \in 1..Len(s) : s[i] = c
    THEN CHOOSE i \in 1..Len(s) : s[i] = c /\ \A j \in 1..(i - 1) : s[j] # c
    ELSE 0

\* str.split(sep) for a one-character separator.
RECURSIVE Split(_, _)
Split(s, sep) ==
    LET i == Find(s, sep)
    IN  IF i = 0
        THEN <<s>>
        ELSE <<SubSeq(s, 1, i - 1)>> \o Split(SubSeq(s, i + 1, Len(s)), sep)

\* os.environ.get(name): None when the variable is not set.
EnvGet(name) == IF name \in DOMAIN environ THEN Some(environ[name]) ELSE None

api_key == EnvGet("exoscale_key")
api_secret == EnvGet("exoscale_secret")
database_names_str == EnvGet("database_names")

---------------------------------------------------------------------------
(* JSON documents, as response.json() returns them. *)

JNum(n) == [t |-> "num", n |-> n]
JStr(s) == [t |-> "str", s |-> s]
JNull == [t |-> "null"]
JArr(a) == [t |-> "arr", a |-> a]
JObj(o) == [t |-> "obj", o |-> o]

\* The outcome of an expression: a value, or the exception it raised.
Ok(v) == [ok |-> TRUE, v |-> v]
Raise(type) == [ok |-> FALSE, type |-> type]

\* v[key] for a str key.
GetItem(v, key) ==
    CASE v.t = "obj" -> IF key \in DOMAIN v.o THEN Ok(v.o[key]) ELSE Raise("KeyError")
      [] OTHER -> Raise("TypeError")

\* v[-1]: the last element.
GetLast(v) ==
    CASE v.t = "arr" -> IF Len(v.a) > 0 THEN Ok(v.a[Len(v.a)]) ELSE Raise("IndexError")
      [] v.t = "str" -> IF Len(v.s) > 0 THEN Ok(JStr(<<v.s[Len(v.s)]>>)) ELSE Raise("IndexError")
      [] v.t = "obj" -> Raise("KeyError")
      [] OTHER -> Raise("TypeError")

\* v[1]: the second element (Python counts from 0, a TLA+ sequence from 1).
GetSecond(v) ==
    CASE v.t = "arr" -> IF Len(v.a) >= 2 THEN Ok(v.a[2]) ELSE Raise("IndexError")
      [] v.t = "str" -> IF Len(v.s) >= 2 THEN Ok(JStr(<<v.s[2]>>)) ELSE Raise("IndexError")
      [] v.t = "obj" -> Raise("KeyError")
      [] OTHER -> Raise("TypeError")

\* The row of a metric's rows that the poller reads.
ReadFirstRow(rows) ==
    CASE rows.t = "arr" -> IF Len(rows.a) > 0 THEN Ok(rows.a[1]) ELSE Raise("IndexError")
      [] OTHER -> GetLast(rows)

ReadRow(rows) == GetLast(rows)

\* The subscripts of lines 130-138: [key], [-1] and [1].
Item(key) == [op |-> "item", key |-> key]
Last == [op |-> "last"]
Second == [op |-> "second"]

Subscript(v, sub) ==
    CASE sub.op = "item" -> GetItem(v, sub.key)
      [] sub.op = "last" -> ReadRow(v)
      [] sub.op = "second" -> GetSecond(v)

\* A subscript applied to the outcome r of the expression before it: an exception
\* raised there is the outcome of the whole. (r is bound to a set's element so that
\* it is evaluated once.)
Then(r, sub) ==
    CHOOSE outcome \in {IF x.ok THEN Subscript(x.v, sub) ELSE x : x \in {r}} : TRUE

\* metrics_data['metrics'][key]['data']['rows'][-1][1]
LatestOf(metrics_data, key) ==
    Then(Then(Then(Then(Then(Then(Ok(metrics_data), Item("metrics")), Item(key)),
                        Item("data")), Item("rows")), Last), Second)

Digits == <<"0", "1", "2", "3", "4", "5", "6", "7", "8", "9">>
IsDigit(c) == \E i \in 1..Len(Digits) : Digits[i] = c
DigitValue(c) == (CHOOSE i \in 1..Len(Digits) : Digits[i] = c) - 1

RECURSIVE ParseDigits(_)
ParseDigits(s) ==
    IF Len(s) = 0 THEN 0
    ELSE ParseDigits(SubSeq(s, 1, Len(s) - 1)) * Len(Digits) + DigitValue(s[Len(s)])

\* float(v), as Gauge.set applies it: a number is kept, a str of decimal digits is
\* parsed, any other str raises ValueError, null (None) raises TypeError.
Float(v) ==
    CASE v.t = "num" -> Ok(v.n)
      [] v.t = "str" -> IF Len(v.s) > 0 /\ \A i \in 1..Len(v.s) : IsDigit(v.s[i])
                        THEN Ok(ParseDigits(v.s))
                        ELSE Raise("ValueError")
      [] OTHER -> Raise("TypeError")

---------------------------------------------------------------------------
(* The nine metrics: the key of the API response (lines 130-138) and the    *)
(* Gauge it feeds (lines 141-149), in the order of the code.                *)

MetricKeys == <<"disk_usage", "load_average", "mem_usage", "diskio_writes",
                "mem_available", "cpu_usage", "diskio_read", "net_send",
                "net_receive">>

GaugeNames == <<"dbaas_disk_usage", "dbaas_load_average", "dbaas_mem_usage",
                "dbaas_diskio_writes", "dbaas_mem_available", "dbaas_cpu_usage",
                "dbaas_diskio_reads", "dbaas_net_send", "dbaas_net_receive">>

Metrics == 1..Len(MetricKeys)
KeySet == {MetricKeys[i] : i \in Metrics}
GaugeSet == {GaugeNames[i] : i \in Metrics}

\* A Gauge with a 'database' label and no child yet (lines 37-45).
NoChildren == <<>>

\* Gauge.labels(database=label): the child of that label, created with the value 0
\* when the Gauge has none yet.
WithChild(children, label) ==
    IF label \in DOMAIN children THEN children ELSE children @@ (label :> 0)

\* child.set(value), once float(value) has returned number.
WithValue(children, label, number) ==
    [l \in DOMAIN children \cup {label} |-> IF l = label THEN number ELSE children[l]]

---------------------------------------------------------------------------
(* The responses of the remote API: the inputs of the poll loop.            *)

\* The value template t reports for the i-th metric.
Val(t, i) == 10 * t + i

\* The value of the rows before the last one: never a value that a template reports.
OldVal(t, i) == 50 + Val(t, i)

DigitStr(n) == <<Digits[(n \div 10) + 1], Digits[(n % 10) + 1]>>

Row(ts, value) == JArr(<<JNum(ts), value>>)

\* n rows for the i-th metric, the last one holding `value`.
RowsOf(t, i, n, value) ==
    JArr([j \in 1..n |-> Row(j, IF j = n THEN value ELSE JNum(OldVal(t, i)))])

Entry(rows) == JObj([data |-> JObj([rows |-> rows])])

\* The 'metrics' mapping of template t, n rows per metric.
MetricsOf(t, n) ==
    [k \in KeySet |->
        LET i == CHOOSE x \in Metrics : MetricKeys[x] = k
        IN  Entry(RowsOf(t, i, n, JNum(Val(t, i))))]

Document(metrics) == JObj([metrics |-> JObj(metrics)])

\* A document with every key, every row and a number in every last row.
ValidDocuments == {Document(MetricsOf(t, n)) : t \in Templates, n \in 1..MaxRows}

\* A document in which one part of the i-th metric is absent or empty.
Broken(kind, i) ==
    LET m == MetricsOf(1, MaxRows)
        k == MetricKeys[i]
        rows == m[k].o.data.o.rows
        swap(e) == [m EXCEPT ![k] = e]
    IN  CASE kind = "no_key" -> Document([x \in KeySet \ {k} |-> m[x]])
          [] kind = "no_data" -> Document(swap(JObj([status |-> JNull])))
          [] kind = "no_rows" -> Document(swap(JObj([data |-> JObj([columns |-> JNull])])))
          [] kind = "null_rows" -> Document(swap(Entry(JNull)))
          [] kind = "empty_rows" -> Document(swap(Entry(JArr(<<>>))))
          [] kind = "empty_row" ->
                Document(swap(Entry(JArr([rows.a EXCEPT ![MaxRows] = JArr(<<>>)]))))
          [] kind = "short_row" ->
                Document(swap(Entry(JArr([rows.a EXCEPT ![MaxRows] = JArr(<<JNum(MaxRows)>>)]))))

BrokenKinds == {"no_key", "no_data", "no_rows", "null_rows", "empty_rows",
                "empty_row", "short_row"}

\* A 200 body without the 'metrics' mapping itself.
NoMetricsDocument == JObj([message |-> JStr(<<"n", "o">>)])

BrokenDocuments ==
    {Broken(kind, i) : kind \in BrokenKinds, i \in Metrics} \cup {NoMetricsDocument}

\* A complete document whose i-th metric has `value` in its last row.
WithLastValue(t, i, value) ==
    Document([MetricsOf(t, MaxRows) EXCEPT ![MetricKeys[i]] =
                  Entry(RowsOf(t, i, MaxRows, value))])

\* The last-row values float() refuses: a str that is no number, and null.
NonNumericValues == {JStr(<<"n", "/", "a">>), JNull}

NonNumericDocuments ==
    {WithLastValue(1, i, v) : i \in Metrics, v \in NonNumericValues}

\* Every last-row value sent as a str of digits, which float() parses.
DigitStrDocuments ==
    {Document([k \in KeySet |->
        LET i == CHOOSE x \in Metrics : MetricKeys[x] = k
        IN  Entry(RowsOf(t, i, MaxRows, JStr(DigitStr(Val(t, i)))))]) : t \in Templates}

Response(status_code, json) == [status_code |-> status_code, json |-> json]

ErrorStatuses == {404, 500}

\* What requests.post returns or raises when the API reports numbers only.
NumericOutcomes ==
    {Ok(Response(200, Some(d))) : d \in ValidDocuments \cup BrokenDocuments}
    \cup {Ok(Response(200, None))}                  \* a body that is no JSON
    \cup {Ok(Response(s, None)) : s \in ErrorStatuses}
    \cup {Raise("ConnectionError")}

\* What requests.post returns or raises, whatever the last rows hold.
AnyOutcomes ==
    NumericOutcomes
    \cup {Ok(Response(200, Some(d))) : d \in NonNumericDocuments \cup DigitStrDocuments}

---------------------------------------------------------------------------
(* The request signer: ExoscaleV2Auth, lines 48-112, and the library calls  *)
(* it makes.                                                                *)

\* Line 48.
exoscale_api_base_url ==
    <<"https", "://", "api-de-muc-1.exoscale.com", "/", "v2", "/",
      "dbaas-service-metrics", "/">>

\* Line 112, as requests serialises it for json=request_body.
request_body == <<"{\"period\": \"hour\"}">>

\* The characters of a query string's names and values, by ascending code point.
CodePoints == <<"1", "2", "a", "b">>

\* ord(c).
Ord(c) == CHOOSE i \in 1..Len(CodePoints) : CodePoints[i] = c

\* s < t for two strs: the first character that differs decides, a proper prefix
\* comes first.
RECURSIVE StrLess(_, _)
StrLess(s, t) ==
    IF t = <<>> THEN FALSE
    ELSE IF s = <<>> THEN TRUE
    ELSE IF s[1] = t[1] THEN StrLess(Tail(s), Tail(t))
    ELSE Ord(s[1]) < Ord(t[1])

\* sorted(strs), for the keys of a dict.
RECURSIVE Sorted(_)
Sorted(strs) ==
    IF strs = {} THEN <<>>
    ELSE LET m == CHOOSE x \in strs : \A y \in strs \ {x} : StrLess(x, y)
         IN  <<m>> \o Sorted(strs \ {m})

\* ''.join(parts).
RECURSIVE Concat(_)
Concat(parts) == IF parts = <<>> THEN <<>> ELSE Head(parts) \o Concat(Tail(parts))

\* sep.join(parts) for a one-character separator.
RECURSIVE Join(_, _)
Join(parts, sep) ==
    IF parts = <<>> THEN <<>>
    ELSE IF Len(parts) = 1 THEN parts[1]
    ELSE parts[1] \o <<sep>> \o Join(Tail(parts), sep)

\* str(n) for an int n >= 0: its decimal digits.
RECURSIVE Str(_)
Str(n) ==
    IF n < Len(Digits) THEN <<Digits[n + 1]>>
    ELSE Str(n \div Len(Digits)) \o <<Digits[(n % Len(Digits)) + 1]>>

\* c.encode('utf-8') for one character: an ASCII character is one byte, U+00E9 is
\* the two bytes C3 A9.
Utf8Char(c) == IF c = "\\u00e9" THEN <<"\\xc3", "\\xa9">> ELSE <<c>>

\* s.encode('utf-8').
RECURSIVE Utf8(_)
Utf8(s) == IF s = <<>> THEN <<>> ELSE Utf8Char(Head(s)) \o Utf8(Tail(s))

\* The part of s before its first element of cs, all of s when it has none. (s is
\* bound to a set's element so that it is evaluated once.)
Before(s, cs) ==
    CHOOSE prefix \in
        {IF \E i \in 1..Len(x) : x[i] \in cs
         THEN SubSeq(x, 1, (CHOOSE i \in 1..Len(x) :
                               x[i] \in cs /\ \A j \in 1..(i - 1) : x[j] \notin cs) - 1)
         ELSE x : x \in {s}} : TRUE

\* urlparse(url): the netloc follows "://" up to the first "/", "?" or "#", the
\* path runs up to the first "?" or "#", the query from the "?" up to the "#".
UrlParse(url) ==
    LET i == Find(url, "://")
        rest == SubSeq(url, i + 1, Len(url))
        netloc == IF i = 0 THEN <<>> ELSE Before(rest, {"/", "?", "#"})
        nofragment == Before(SubSeq(rest, Len(netloc) + 1, Len(rest)), {"#"})
        path == Before(nofragment, {"?"})
    IN  [scheme |-> SubSeq(url, 1, i - 1),
         netloc |-> netloc,
         path |-> path,
         query |-> SubSeq(nofragment, Len(path) + 2, Len(nofragment))]

\* One field of a query string as <<name, value>>: split at its first "=", the
\* value empty when it has none.
NameValue(field) ==
    LET i == Find(field, "=")
    IN  IF i = 0 THEN <<field, <<>>>>
        ELSE <<SubSeq(field, 1, i - 1), SubSeq(field, i + 1, Len(field))>>

\* parse_qsl keeps a field only if its value is not blank (keep_blank_values is
\* False by default).
NotBlank(name_value) == name_value[2] # <<>>

\* parse_qsl(query): the fields between the "&"s, in the order of the query.
ParseQsl(query) ==
    LET fields == IF query = <<>> THEN <<>> ELSE Split(query, "&")
    IN  SelectSeq([k \in 1..Len(fields) |-> NameValue(fields[k])], NotBlank)

\* The values of `name` in a list of pairs, in the order of the list.
RECURSIVE ValuesOf(_, _)
ValuesOf(pairs, name) ==
    IF pairs = <<>> THEN <<>>
    ELSE (IF Head(pairs)[1] = name THEN <<Head(pairs)[2]>> ELSE <<>>)
             \o ValuesOf(Tail(pairs), name)

\* parse_qs(query): a dict from each name to the list of its values.
ParseQs(query) ==
    LET pairs == ParseQsl(query)
    IN  [name \in {pairs[k][1] : k \in 1..Len(pairs)} |-> ValuesOf(pairs, name)]

\* hmac.new(secret, msg=msg, digestmod=hashlib.sha256).digest(). The digest is not
\* computed: it stands as the text that names the secret and the message, so two
\* digests are equal exactly when both are.
HmacSha256(secret, msg) == <<"hmac-sha256(">> \o secret \o <<",">> \o msg \o <<")">>

\* str(standard_b64encode(digest), 'utf-8'), not computed either.
StandardB64Encode(digest) == <<"b64(">> \o digest \o <<")">>

\* A prepared request.
PreparedRequest(method, url, body, headers) ==
    [method |-> method, url |-> url, body |-> body, headers |-> headers]

\* Line 122.
JsonHeaders == [h \in {"Content-Type"} |-> <<"application/json">>]

\* Lines 52-54.
ExoscaleV2Auth(key, secret) == [key |-> key, secret |-> Utf8(secret)]

\* Line 57 with the offset left out.
ExpirationTsNow(time) == time \div TicksPerSecond

\* Line 57: int(time.time() + 10 * 60), the time given in ticks.
ExpirationTs(time) == (time + 10 * 60 * TicksPerSecond) \div TicksPerSecond

\* Line 71 with a placeholder for a request without a body.
BodyPartOrNull(body) == IF body # None /\ body[1] # <<>> THEN body[1] ELSE <<"null">>

\* Line 71: request.body if request.body else b''.
BodyPart(body) == IF body # None /\ body[1] # <<>> THEN body[1] ELSE <<>>

\* Line 78.
SignedParams(params) == Sorted(DOMAIN params)

\* Lines 79-83: the value of every name of signed_params that has exactly one.
RECURSIVE ParamsValues(_, _)
ParamsValues(params, signed_params) ==
    IF signed_params = <<>> THEN <<>>
    ELSE (IF Len(params[Head(signed_params)]) # 1
          THEN <<>>
          ELSE <<params[Head(signed_params)][1]>>)
             \o ParamsValues(params, Tail(signed_params))

\* Lines 63-94: msg_parts.
MsgParts(method, path, body, params_values, expiration_ts) ==
    <<Utf8(<<method, " ">> \o path),
      BodyPart(body),
      Utf8(Concat(params_values)),
      <<>>,
      Utf8(Str(expiration_ts))>>

\* Lines 62, 85-86, 95 and 102-104: auth_header.
AuthHeader(key, signed_params, expiration_ts, signature) ==
    <<"EXO2-HMAC-SHA256 credential=">> \o key
    \o (IF signed_params # <<>>
        THEN <<",signed-query-args=">> \o Join(signed_params, ";")
        ELSE <<>>)
    \o <<",expires=">> \o Str(expiration_ts)
    \o <<",signature=">> \o StandardB64Encode(signature)

\* Line 106 with the headers of the request replaced by the new one.
WithOnlyAuthorization(request, auth_header) ==
    [request EXCEPT !.headers = [h \in {"Authorization"} |-> auth_header]]

\* Line 106: request.headers['Authorization'] = auth_header.
WithAuthorization(request, auth_header) ==
    [request EXCEPT !.headers =
        [h \in DOMAIN request.headers \cup {"Authorization"} |->
            IF h = "Authorization" THEN auth_header ELSE request.headers[h]]]

\* Lines 56-59 and 61-106: auth(request) when time.time() returns `time`. Each
\* local is bound once, in the order of the code; the request prepared last gets
\* the header, and the locals are kept.
Call(self, request, time) ==
    \E expiration_ts \in {ExpirationTs(time)} :
    \E url \in {UrlParse(request.url)} :
    \E params \in {ParseQs(url.query)} :
    \E signed_params \in {SignedParams(params)} :
    \E params_values \in {ParamsValues(params, signed_params)} :
    \E msg_parts \in {MsgParts(request.method, url.path, request.body, params_values,
                               expiration_ts)} :
    \E msg \in {Join(msg_parts, "\n")} :
    \E signature \in {HmacSha256(self.secret, msg)} :
    \E auth_header \in {AuthHeader(self.key, signed_params, expiration_ts, signature)} :
        /\ last_request' = Some(WithAuthorization(request, auth_header))
        /\ signing' = Some([at |-> time, expiration_ts |-> expiration_ts, msg |-> msg])

---------------------------------------------------------------------------
(* Startup: lines 18-34 run when the module is loaded, lines 162-167 after. *)

\* Line 25: the credential check that ends the process.
CredentialsUnsetOnly(key, secret) == key = None \/ secret = None

CredentialsMissing(key, secret) ==
    key = None \/ secret = None \/ key = Some(EmptyStr) \/ secret = Some(EmptyStr)

\* Line 29: the database list check that ends the process.
NamesMissing(names_str) == names_str = None \/ names_str = Some(EmptyStr)

\* os.environ with the three variables, each set or not.
Bind(name, value) == IF value = None THEN <<>> ELSE (name :> value[1])

Environ(key, secret, names_str) ==
    Bind("exoscale_key", key) @@ Bind("exoscale_secret", secret)
        @@ Bind("database_names", names_str)

InitWith(environs) ==
    /\ environ \in environs
    /\ pc = "check_credentials"
    /\ database_names = <<>>
    /\ serverOpen = FALSE
    /\ it = 0
    /\ database_name = None
    /\ response = None
    /\ latest = None
    /\ g = 1
    /\ exc = None
    /\ gauges = [n \in GaugeSet |-> NoChildren]
    /\ cycle_log = <<>>
    /\ requested = <<>>
    /\ before = None
    /\ written = [n \in GaugeSet |-> NoChildren]
    /\ scraped = None
    /\ now = 0
    /\ auth = None
    /\ last_request = None
    /\ signing = None
    /\ polled = <<>>

\* Every way of setting, leaving empty or not setting the three variables.
Environs ==
    {Environ(k, s, n) : k \in {None, Some(EmptyStr), Some(StrKey)},
                        s \in {None, Some(EmptyStr), Some(StrSecret)},
                        n \in {None, Some(EmptyStr), Some(StrABC), Some(StrAA)}}

Init == InitWith(Environs)

\* One monitored database and valid credentials.
InitOne == InitWith({Environ(Some(StrKey), Some(StrSecret), Some(StrA))})

startup_unchanged ==
    UNCHANGED <<environ, it, database_name, response, latest, g, exc, gauges,
                cycle_log, requested, before, written>>

\* Lines 25-27.
CheckCredentials ==
    /\ pc = "check_credentials"
    /\ pc' = IF CredentialsMissing(api_key, api_secret) THEN "exited" ELSE "check_names"
    /\ scraped' = None
    /\ UNCHANGED <<now, auth, last_request, signing, polled>>
    /\ UNCHANGED <<database_names, serverOpen>>
    /\ startup_unchanged

\* Lines 29-31.
CheckNames ==
    /\ pc = "check_names"
    /\ pc' = IF NamesMissing(database_names_str) THEN "exited" ELSE "split"
    /\ scraped' = None
    /\ UNCHANGED <<now, auth, last_request, signing, polled>>
    /\ UNCHANGED <<database_names, serverOpen>>
    /\ startup_unchanged

\* Lines 34 and 109. Lines 37-45 and 112 build the gauges and the request body,
\* which Init holds already.
SplitNames ==
    /\ pc = "split"
    /\ database_names' = Split(database_names_str[1], ",")
    /\ auth' = Some(ExoscaleV2Auth(api_key[1], api_secret[1]))
    /\ pc' = "start_server"
    /\ scraped' = None
    /\ UNCHANGED <<now, last_request, signing, polled>>
    /\ UNCHANGED serverOpen
    /\ startup_unchanged

\* Lines 162-167: the endpoint is opened, then fetch_metrics is entered.
StartServer ==
    /\ pc = "start_server"
    /\ serverOpen' = TRUE
    /\ pc' = "for"
    /\ scraped' = None
    /\ UNCHANGED <<now, auth, last_request, signing, polled>>
    /\ UNCHANGED database_names
    /\ startup_unchanged

---------------------------------------------------------------------------
(* fetch_metrics, lines 116-160. *)

ExceptionTypes == {"ConnectionError", "JSONDecodeError", "KeyError", "IndexError",
                   "TypeError", "ValueError"}

\* Line 156 as "except requests.RequestException".
CaughtRequestException(type) == type = "ConnectionError"

\* Line 156: "except Exception" catches every exception raised in the try block.
Caught(type) == type \in ExceptionTypes

\* An exception of `type` raised in the try block at `at`: to the handler of line
\* 156, or out of fetch_metrics, which ends the main thread.
Raised(type, at) ==
    /\ exc' = Some([type |-> type, at |-> at])
    /\ pc' = IF Caught(type) THEN "except" ELSE "crashed"

\* A record of the log: its level, the database its message names, and the status
\* code (0 when it names none) or the exception (the empty str when it names none).
LogRecord(level, database, what, status_code, error) ==
    [level |-> level, database |-> database, what |-> what,
     status_code |-> status_code, error |-> error]

\* Line 119: the iterator yields the next entry, or the loop and the try block end.
For ==
    /\ pc = "for"
    /\ IF it < Len(database_names)
       THEN /\ it' = it + 1
            /\ database_name' = Some(database_names[it + 1])
            /\ pc' = "post"
       ELSE /\ pc' = "sleep"
            /\ UNCHANGED <<it, database_name>>
    /\ scraped' = None
    /\ UNCHANGED <<now, auth, last_request, signing, polled>>
    /\ UNCHANGED <<environ, database_names, serverOpen, response, latest, g, exc,
                   gauges, cycle_log, requested, before, written>>

\* Lines 120-124: the request for database_name is prepared and signed by
\* auth(request), then sent; requests.post returns a response or raises.
Post(outcomes) ==
    /\ pc = "post"
    /\ \E prepared \in {PreparedRequest("POST", exoscale_api_base_url \o database_name[1],
                                         Some(request_body), JsonHeaders)} :
           Call(auth[1], prepared, now)
    /\ \E o \in outcomes :
        IF o.ok
        THEN /\ response' = Some(o.v)
             /\ pc' = "status"
             /\ UNCHANGED exc
        ELSE /\ Raised(o.type, "post")
             /\ UNCHANGED response
    /\ requested' = Append(requested, database_name[1])
    /\ before' = Some([gauges |-> gauges, written |-> written])
    /\ scraped' = None
    /\ UNCHANGED <<now, auth, polled>>
    /\ UNCHANGED <<environ, database_names, serverOpen, it, database_name, latest, g,
                   gauges, cycle_log, written>>

\* Lines 130-138: the nine values, each the outcome of its subscript chain.
Extracted(metrics_data) == [i \in Metrics |-> LatestOf(metrics_data, MetricKeys[i])]

\* The first of the nine extractions that raises, 0 when none does.
FirstFailure(values) ==
    IF \E i \in Metrics : ~values[i].ok
    THEN CHOOSE i \in Metrics : ~values[i].ok /\ \A j \in 1..(i - 1) : values[j].ok
    ELSE 0

\* Lines 153-154 with the gauges of the database reset to 0.
StatusErrorResetsGauges ==
    /\ cycle_log' = Append(cycle_log,
           LogRecord("ERROR", database_name, "status", response[1].status_code, ""))
    /\ pc' = "for"
    /\ response' = None
    /\ before' = None
    /\ gauges' = [n \in GaugeSet |->
                     [l \in DOMAIN gauges[n] |->
                         IF l = database_name[1] THEN 0 ELSE gauges[n][l]]]
    /\ UNCHANGED <<latest, g, exc, written>>

\* Lines 153-154 followed by another request for the same database.
StatusErrorRetries ==
    /\ cycle_log' = Append(cycle_log,
           LogRecord("ERROR", database_name, "status", response[1].status_code, ""))
    /\ pc' = "post"
    /\ response' = None
    /\ before' = None
    /\ UNCHANGED <<latest, g, exc, gauges, written>>

\* Lines 153-154: a status other than 200 is logged and the loop goes on.
StatusError ==
    /\ cycle_log' = Append(cycle_log,
           LogRecord("ERROR", database_name, "status", response[1].status_code, ""))
    /\ pc' = "for"
    /\ response' = None
    /\ before' = None
    /\ UNCHANGED <<latest, g, exc, gauges, written>>

\* Line 127: response.json() raises on a body that is no JSON.
JsonError ==
    /\ Raised("JSONDecodeError", "json")
    /\ UNCHANGED <<response, latest, g, gauges, cycle_log, before, written>>

\* Lines 130-149 with each gauge set right after its value is read: the gauges of
\* the metrics before the first failure carry the new values.
ExtractSettingInTurn(metrics_data) ==
    \E values \in {Extracted(metrics_data)} : \E f \in {FirstFailure(values)} :
    LET set(children, i) ==
            IF i < f /\ Float(values[i].v).ok
            THEN WithValue(children, database_name[1], Float(values[i].v).v)
            ELSE children
    IN  IF f = 0
        THEN /\ latest' = Some([i \in Metrics |-> values[i].v])
             /\ g' = 1
             /\ pc' = "labels"
             /\ UNCHANGED <<response, exc, gauges, cycle_log, before, written>>
        ELSE /\ Raised(values[f].type, "extract")
             /\ gauges' = [n \in GaugeSet |->
                    set(gauges[n], CHOOSE i \in Metrics : GaugeNames[i] = n)]
             /\ written' = [n \in GaugeSet |->
                    set(written[n], CHOOSE i \in Metrics : GaugeNames[i] = n)]
             /\ UNCHANGED <<response, latest, g, cycle_log, before>>

\* Lines 130-138: all nine values are read before any gauge is touched.
Extract(metrics_data) ==
    \E values \in {Extracted(metrics_data)} : \E f \in {FirstFailure(values)} :
        IF f = 0
        THEN /\ latest' = Some([i \in Metrics |-> values[i].v])
             /\ g' = 1
             /\ pc' = "labels"
             /\ UNCHANGED <<response, exc, gauges, cycle_log, before, written>>
        ELSE /\ Raised(values[f].type, "extract")
             /\ UNCHANGED <<response, latest, g, gauges, cycle_log, before, written>>

\* Lines 126-138 and 153-154: the status check and what follows it up to line 138.
Status ==
    /\ pc = "status"
    /\ IF response[1].status_code = 200
       THEN IF response[1].json = None
            THEN JsonError
            ELSE Extract(response[1].json[1])
       ELSE StatusError
    /\ scraped' = None
    /\ UNCHANGED <<now, auth, last_request, signing, polled>>
    /\ UNCHANGED <<environ, database_names, serverOpen, it, database_name, requested>>

\* Lines 141-149, first half of each: gauge.labels(database=database_name).
Labels ==
    /\ pc = "labels"
    /\ gauges' = [gauges EXCEPT ![GaugeNames[g]] = WithChild(@, database_name[1])]
    /\ pc' = "set"
    /\ scraped' = None
    /\ UNCHANGED <<now, auth, last_request, signing, polled>>
    /\ UNCHANGED <<environ, database_names, serverOpen, it, database_name, response,
                   latest, g, exc, cycle_log, requested, before, written>>

\* Lines 141-149, second half of each: .set(latest_x), which stores float(latest_x)
\* or raises what float raises.
Set ==
    /\ pc = "set"
    /\ LET number == Float(latest[1][g])
       IN  IF number.ok
           THEN /\ gauges' = [gauges EXCEPT ![GaugeNames[g]] =
                                  WithValue(@, database_name[1], number.v)]
                /\ written' = [written EXCEPT ![GaugeNames[g]] =
                                  WithValue(@, database_name[1], number.v)]
                /\ IF g = Len(GaugeNames)
                   THEN pc' = "info" /\ UNCHANGED g
                   ELSE pc' = "labels" /\ g' = g + 1
                /\ UNCHANGED exc
           ELSE /\ Raised(number.type, "set")
                /\ UNCHANGED <<gauges, written, g>>
    /\ scraped' = None
    /\ UNCHANGED <<now, auth, last_request, signing, polled>>
    /\ UNCHANGED <<environ, database_names, serverOpen, it, database_name, response,
                   latest, cycle_log, requested, before>>

\* Line 151.
Info ==
    /\ pc = "info"
    /\ cycle_log' = Append(cycle_log, LogRecord("INFO", database_name, "scraped", 0, ""))
    /\ pc' = "for"
    /\ response' = None
    /\ latest' = None
    /\ before' = None
    /\ polled' = [d \in DOMAIN polled \cup {database_name[1]} |->
                      IF d = database_name[1]
                      THEN [i \in Metrics |-> Float(latest[1][i]).v]
                      ELSE polled[d]]
    /\ scraped' = None
    /\ UNCHANGED <<now, auth, last_request, signing>>
    /\ UNCHANGED <<environ, database_names, serverOpen, it, database_name, g, exc,
                   gauges, requested, written>>

\* Lines 156-157 with the first entry of the list in the message.
ExceptNamingFirst ==
    /\ pc = "except"
    /\ cycle_log' = Append(cycle_log,
           LogRecord("ERROR", Some(database_names[1]), "exception", 0, exc[1].type))
    /\ pc' = "sleep"
    /\ exc' = None
    /\ scraped' = None
    /\ UNCHANGED <<now, auth, last_request, signing, polled>>
    /\ UNCHANGED <<environ, database_names, serverOpen, it, database_name, response,
                   latest, g, gauges, requested, before, written>>

\* Lines 156-157: the handler logs the exception with database_name, and the try
\* statement is over: the rest of the list is not visited in this cycle.
Except ==
    /\ pc = "except"
    /\ cycle_log' = Append(cycle_log,
           LogRecord("ERROR", database_name, "exception", 0, exc[1].type))
    /\ pc' = "sleep"
    /\ exc' = None
    /\ scraped' = None
    /\ UNCHANGED <<now, auth, last_request, signing, polled>>
    /\ UNCHANGED <<environ, database_names, serverOpen, it, database_name, response,
                   latest, g, gauges, requested, before, written>>

\* Line 160, then line 117 again: a new cycle with a new iterator.
Sleep ==
    /\ pc = "sleep"
    /\ pc' = "for"
    /\ it' = 0
    /\ cycle_log' = <<>>
    /\ requested' = <<>>
    /\ response' = None
    /\ latest' = None
    /\ before' = None
    /\ scraped' = None
    /\ UNCHANGED <<now, auth, last_request, signing, polled>>
    /\ UNCHANGED <<environ, database_names, serverOpen, database_name, g, exc, gauges,
                   written>>

---------------------------------------------------------------------------
(* The pull endpoint: the server thread of start_http_server.               *)

\* One scrape: every child of every Gauge with the value it holds.
Scrape ==
    /\ serverOpen
    /\ scraped' = Some(gauges)
    /\ UNCHANGED <<environ, pc, database_names, serverOpen, it, database_name,
                   response, latest, g, exc, gauges, cycle_log, requested, before,
                   written, now, auth, last_request, signing, polled>>

---------------------------------------------------------------------------
(* The signer on its own, and the clock. *)

\* Lines 56-59: auth(request), as requests calls it for a request it has prepared.
Sign ==
    /\ pc = "sign"
    /\ Call(auth[1], last_request[1], now)
    /\ scraped' = None
    /\ UNCHANGED <<environ, pc, database_names, serverOpen, it, database_name,
                   response, latest, g, exc, gauges, cycle_log, requested, before,
                   written, now, auth, polled>>

\* Time passes: time.time() returns a later value.
Tick ==
    /\ now < MaxNow
    /\ now' = now + 1
    /\ UNCHANGED <<environ, pc, database_names, serverOpen, it, database_name,
                   response, latest, g, exc, gauges, cycle_log, requested, before,
                   written, scraped, auth, last_request, signing, polled>>

\* The requests given to the signer: query strings of up to MaxParams fields, a
\* name once, twice or with a blank value, in any order.
QueryNames == {<<"b">>, <<"a", "b">>}
QueryValues == {<<>>, <<"1">>, <<"2">>}
QueryFields == {n \o <<"=">> \o v : n \in QueryNames, v \in QueryValues}

Queries ==
    {Join(fields, "&") : fields \in UNION {[1..n -> QueryFields] : n \in 0..MaxParams}}

UrlWith(query) ==
    exoscale_api_base_url \o StrA \o (IF query = <<>> THEN <<>> ELSE <<"?">> \o query)

\* No body, the body of line 112, and a body with a newline in it.
Bodies == {None, Some(request_body), Some(<<"x", "\n", "y">>)}

Methods == {"POST", "GET"}

Requests ==
    {PreparedRequest(m, UrlWith(q), b, JsonHeaders) :
        m \in Methods, q \in Queries, b \in Bodies}

\* The auth object of line 109 and a prepared request it has not signed yet.
InitSign ==
    /\ environ = Environ(Some(StrKey), Some(StrSecret), Some(StrA))
    /\ pc = "sign"
    /\ database_names = <<StrA>>
    /\ serverOpen = FALSE
    /\ it = 0
    /\ database_name = None
    /\ response = None
    /\ latest = None
    /\ g = 1
    /\ exc = None
    /\ gauges = [n \in GaugeSet |-> NoChildren]
    /\ cycle_log = <<>>
    /\ requested = <<>>
    /\ before = None
    /\ written = [n \in GaugeSet |-> NoChildren]
    /\ scraped = None
    /\ now = 0
    /\ auth = Some(ExoscaleV2Auth(StrKey, StrSecret))
    /\ last_request \in {Some(r) : r \in Requests}
    /\ signing = None
    /\ polled = <<>>

---------------------------------------------------------------------------
(* Specifications. *)

Startup == CheckCredentials \/ CheckNames \/ SplitNames \/ StartServer

Poller(outcomes) ==
    For \/ Post(outcomes) \/ Status \/ Labels \/ Set \/ Info \/ Except \/ Sleep

\* The program with a remote API that reports numbers.
Next == Startup \/ Poller(NumericOutcomes) \/ Scrape

Spec == Init /\ [][Next]_vars

\* The program with one database and a remote API that reports anything.
NextAny == Startup \/ Poller(AnyOutcomes) \/ Scrape

SpecOne == InitOne /\ [][NextAny]_vars

\* One outcome of each kind: each status, each exception of the try block, a
\* complete document.
SomeOutcomes ==
    {Ok(Response(200, Some(d))) :
        d \in {Document(MetricsOf(1, MaxRows)), NoMetricsDocument,
               WithLastValue(1, 3, JStr(<<"n", "/", "a">>)), WithLastValue(1, 1, JNull)}
              \cup {Broken(kind, 6) : kind \in BrokenKinds}}
    \cup {Ok(Response(200, None))}
    \cup {Ok(Response(s, None)) : s \in ErrorStatuses}
    \cup {Raise("ConnectionError")}

\* Two monitored databases and valid credentials.
InitTwo == InitWith({Environ(Some(StrKey), Some(StrSecret), Some(StrAB))})

NextTwo == Startup \/ Poller(SomeOutcomes) \/ Scrape

\* The main thread runs as long as the process lives, and every request returns or
\* raises; nothing is assumed of the scrapes.
FairSpec == InitTwo /\ [][NextTwo]_vars /\ WF_vars(Startup \/ Poller(SomeOutcomes))

\* A complete document, a status other than 200 and an exception.
ClockOutcomes ==
    {Ok(Response(200, Some(Document(MetricsOf(1, MaxRows))))),
     Ok(Response(500, None)),
     Raise("ConnectionError")}

\* Two monitored databases polled while time passes.
NextClock == Startup \/ Poller(ClockOutcomes) \/ Scrape \/ Tick

SpecClock == InitTwo /\ [][NextClock]_vars

\* The signer applied to each request of Requests, at any time of the clock.
NextSign == Sign \/ Tick

SpecSign == InitSign /\ [][NextSign]_vars

---------------------------------------------------------------------------
(* The claims. *)

ListABC == Split(StrABC, ",")

\* The response being handled, when it is a 200 with a JSON body.
Handled200 ==
    /\ response # None
    /\ response[1].status_code = 200
    /\ response[1].json # None

\* The last row's second element of the i-th metric of a complete document.
LastRowValue(document, i) ==
    LET rows == document.o.metrics.o[MetricKeys[i]].o.data.o.rows.a
    IN  rows[Len(rows)].a[2]

\* C1: in a cycle over [A, B, C] in which the request or the parse for B raised,
\* the databases after B are still polled: when the cycle sleeps, every entry of
\* the list has its record in the cycle's log.
C1_ExceptionForBLeavesAAndCPolled ==
    (/\ pc = "sleep"
     /\ database_names = ListABC
     /\ \E i \in 1..Len(cycle_log) :
            /\ cycle_log[i].what = "exception"
            /\ cycle_log[i].database = Some(<<"B">>))
    => Len(cycle_log) = Len(database_names)

\* C2: the step that handles a status other than 200 changes no gauge, and the
\* main thread's next step requests the next database of the list.
C2_Non200LeavesGaugesAndGoesOn ==
    [][/\ (pc = "status" /\ response[1].status_code # 200 /\ pc' # pc)
          => (gauges' = gauges /\ written' = written /\ pc' = "for" /\ it' = it)
       /\ (/\ pc = "for"
           /\ it < Len(database_names)
           /\ cycle_log # <<>>
           /\ cycle_log[Len(cycle_log)].what = "status"
           /\ pc' # pc)
          => (/\ pc' = "post"
              /\ database_name' = Some(database_names[it + 1])
              /\ gauges' = gauges)]_vars

\* C2 happens: a status other than 200 for one entry, then the gauges of the next
\* entry set in the same cycle.
C2_Witness ==
    /\ Len(cycle_log) = 3
    /\ cycle_log[2].what = "status"
    /\ cycle_log[2].database = Some(<<"B">>)
    /\ cycle_log[3].what = "scraped"
    /\ cycle_log[3].database = Some(<<"C">>)
    /\ \A n \in GaugeSet : <<"C">> \in DOMAIN written[n] /\ <<"B">> \notin DOMAIN gauges[n]

\* C3: once a 200 response in which a key, a data, a rows or a last row is absent
\* or empty has been handled, the handler of line 156 is reached (or the cycle
\* sleeps) and every gauge is as it was when the request was sent.
C3_BrokenDocumentChangesNoGauge ==
    (/\ Handled200
     /\ response[1].json[1] \in BrokenDocuments
     /\ pc # "status")
    => (/\ pc \in {"except", "sleep"}
        /\ gauges = before[1].gauges
        /\ written = before[1].written)

\* C3 happens: the cpu_usage key is missing, for a database whose gauges hold values.
C3_Witness ==
    /\ pc = "sleep"
    /\ Handled200
    /\ response[1].json[1] = Broken("no_key", 6)
    /\ \A n \in GaugeSet : StrA \in DOMAIN written[n]

\* C4: a 200 response with a non-numeric last-row value leaves every gauge as it
\* was when the request was sent: no set() stores a value for that database.
C4_NonNumericValueChangesNoGauge ==
    (Handled200 /\ response[1].json[1] \in NonNumericDocuments)
    => written = before[1].written

\* C5: when the nine writes for a valid document are done, each gauge of the
\* database holds the second element of the last row of its key.
C5_GaugesHoldLastRowValue ==
    (/\ pc = "info"
     /\ response[1].json[1] \in ValidDocuments)
    => \A i \in Metrics :
           gauges[GaugeNames[i]][database_name[1]]
               = LastRowValue(response[1].json[1], i).n

\* C5 happens: the values of one template overwritten by those of the other, read
\* from a document with more than one row.
C5_Witness ==
    /\ pc = "info"
    /\ response[1].json[1] = Document(MetricsOf(2, MaxRows))
    /\ \A i \in Metrics :
           /\ StrA \in DOMAIN before[1].gauges[GaugeNames[i]]
           /\ before[1].gauges[GaugeNames[i]][StrA] = Val(1, i)

\* C6: every series a scrape returns has had a value written, and the scrape
\* returns that value.
C6_ScrapeReturnsWrittenValues ==
    scraped # None =>
        \A n \in GaugeSet : \A l \in DOMAIN scraped[1][n] :
            /\ l \in DOMAIN written[n]
            /\ scraped[1][n][l] = written[n][l]

\* A variable of the environment that is not set, or set to the empty str.
Unusable(name) == name \notin DOMAIN environ \/ environ[name] = EmptyStr

\* C7: with a credential or the database list missing or empty, the process never
\* leaves the startup validation: the endpoint is not opened, no request is sent.
C7_MissingConfigurationNeverServes ==
    (\E name \in {"exoscale_key", "exoscale_secret", "database_names"} : Unusable(name))
    => (/\ ~serverOpen
        /\ requested = <<>>
        /\ pc \in {"check_credentials", "check_names", "exited"})

\* C7 happens: the process has exited on an empty credential secret, the key and the
\* list being set.
C7_Witness ==
    /\ pc = "exited"
    /\ ~Unusable("exoscale_key")
    /\ ~Unusable("database_names")
    /\ "exoscale_secret" \in DOMAIN environ
    /\ environ["exoscale_secret"] = EmptyStr

InsideCycle == pc \in {"for", "post", "status", "labels", "set", "info", "except"}

\* C8: no exception leaves fetch_metrics, every cycle reaches its sleep, and after
\* every sleep a new cycle starts.
C8_PollLoopNeverStops ==
    /\ [](pc # "crashed")
    /\ (InsideCycle ~> (pc = "sleep"))
    /\ ((pc = "sleep") ~> (pc = "for" /\ it = 0 /\ cycle_log = <<>>))

\* C8 happens: a cycle with a status other than 200 and an exception has reached
\* its sleep.
C8_Witness ==
    /\ pc = "sleep"
    /\ \E i, j \in 1..Len(cycle_log) :
          cycle_log[i].what = "status" /\ cycle_log[j].what = "exception"

\* C9: when a cycle sleeps, a request has been sent for every entry of the list,
\* in list order.
C9_SleepAfterEveryDatabase ==
    pc = "sleep" => requested = database_names

\* C10: the requests sent since the cycle began are the first entries of the list,
\* one request each, in list order.
C10_OneRequestPerDatabasePerCycle ==
    /\ Len(requested) <= Len(database_names)
    /\ \A i \in 1..Len(requested) : requested[i] = database_names[i]
    /\ Len(requested) \in {it - 1, it}

\* C10 happens: a cycle over three entries in which a request failed has reached
\* its sleep with three requests sent.
C10_Witness ==
    /\ pc = "sleep"
    /\ Len(requested) = 3
    /\ \E i \in 1..Len(cycle_log) : cycle_log[i].level = "ERROR"

\* The value of `field` in an Authorization header: what follows the field's
\* name up to the next field, None when the header has no such field.
HeaderFieldNames == {",signed-query-args=", ",expires=", ",signature="}

HeaderField(header, field) ==
    LET i == Find(header, field)
    IN  IF i = 0 THEN None
        ELSE Some(Before(SubSeq(header, i + 1, Len(header)), HeaderFieldNames))

\* The Authorization header of the request signed last.
Authorization == last_request[1].headers["Authorization"]

\* The names the header lists in signed-query-args, in the order of the header.
ListedNames ==
    LET field == HeaderField(Authorization, ",signed-query-args=")
    IN  IF field = None THEN <<>> ELSE Split(field[1], ";")

\* The query parameters of the request signed last, as parse_qs returns them.
Params == ParseQs(UrlParse(last_request[1].url).query)

\* The names with exactly one value, ascending.
SingleValued == Sorted({name \in DOMAIN Params : Len(Params[name]) = 1})

\* The third segment of the signed message of a request without newline in its body.
ThirdSegment == Split(signing[1].msg, "\n")[3]

\* C11: a parameter with several values is not listed in signed-query-args and
\* its values are not in the message; the names listed are exactly the
\* single-valued names, ascending, and the message holds their values in that order.
C11_ListedNamesAreTheSignedNames ==
    signing # None =>
        /\ \A name \in DOMAIN Params :
               Len(Params[name]) > 1 => \A k \in 1..Len(ListedNames) : ListedNames[k] # name
        /\ ListedNames = SingleValued
        /\ (last_request[1].body # Some(<<"x", "\n", "y">>)
               => ThirdSegment = Concat([k \in 1..Len(SingleValued) |->
                                           Params[SingleValued[k]][1]]))

\* C12: the header of a signed request has the signed-query-args segment if and
\* only if the value of at least one parameter went into the message.
C12_SegmentPresentIffAValueWasSigned ==
    signing # None =>
        (HeaderField(Authorization, ",signed-query-args=") # None
            <=> ParamsValues(Params, SignedParams(Params)) # <<>>)

\* The path of every URL of Requests: no scheme, no host, no query string.
PathOfA == <<"/", "v2", "/", "dbaas-service-metrics", "/", "A">>

\* The bytes of the body of the request signed last, none when it has no body.
BodyBytes == IF last_request[1].body = None THEN <<>> ELSE last_request[1].body[1]

\* How many newlines a bytes value holds.
Newlines(bytes) == Cardinality({i \in 1..Len(bytes) : bytes[i] = "\n"})

\* bytes is the decimal notation of n: digits only, no leading zero.
IsDecimalOf(bytes, n) ==
    /\ Len(bytes) > 0
    /\ \A i \in 1..Len(bytes) : IsDigit(bytes[i])
    /\ Len(bytes) > 1 => bytes[1] # "0"
    /\ ParseDigits(bytes) = n

\* C13: the signed message is '<METHOD> <path>', the body's bytes, the signed
\* query values, an empty segment and the decimal expiration, each followed by
\* one newline but the last: four newlines besides those of the body.
C13_MessageIsFiveSegments ==
    signing # None =>
        \E k \in 1..Len(signing[1].msg) :
            LET expiration == SubSeq(signing[1].msg, Len(signing[1].msg) - k + 1,
                                     Len(signing[1].msg))
            IN  /\ IsDecimalOf(expiration, signing[1].expiration_ts)
                /\ signing[1].msg =
                       <<last_request[1].method, " ">> \o PathOfA \o <<"\n">>
                       \o BodyBytes \o <<"\n">>
                       \o Concat(ParamsValues(Params, SignedParams(Params))) \o <<"\n">>
                       \o <<"\n">>
                       \o expiration
                /\ Newlines(signing[1].msg) = 4 + Newlines(BodyBytes)

\* C13 happens: a request with no body and no signed value, its message three
\* empty segments between the first and the last.
C13_Witness ==
    /\ signing # None
    /\ last_request[1].body = None
    /\ last_request[1].url = UrlWith(<<"b", "=">>)
    /\ signing[1].msg = <<"GET", " ">> \o PathOfA \o <<"\n", "\n", "\n", "\n", "6", "0", "0">>

\* A step of the signer: it has set the Authorization header or its locals.
Signs == last_request' # last_request \/ signing' # signing

\* C14: a signing leaves the key and the secret of the auth object, and the
\* method, the URL, the body and the other headers of the request as they were;
\* signing again the same request at the same time gives the same Authorization.
C14_SigningChangesTheAuthorizationOnly ==
    [][(pc = "sign" /\ Signs) =>
          /\ auth' = auth
          /\ last_request'[1].method = last_request[1].method
          /\ last_request'[1].url = last_request[1].url
          /\ last_request'[1].body = last_request[1].body
          /\ \A h \in DOMAIN last_request[1].headers \ {"Authorization"} :
                 /\ h \in DOMAIN last_request'[1].headers
                 /\ last_request'[1].headers[h] = last_request[1].headers[h]
          /\ DOMAIN last_request'[1].headers
                 = DOMAIN last_request[1].headers \cup {"Authorization"}
          /\ (signing # None /\ signing[1].at = now)
                 => last_request'[1].headers["Authorization"]
                        = last_request[1].headers["Authorization"]]_vars

\* C14 happens: a request with a body and a query string has been signed one
\* second after the clock's start, and the clock still shows the time of that
\* signing.
C14_Witness ==
    /\ signing # None
    /\ signing[1].at = TicksPerSecond
    /\ now = signing[1].at
    /\ auth = Some(ExoscaleV2Auth(StrKey, StrSecret))
    /\ last_request[1].body = Some(request_body)
    /\ last_request[1].url = UrlWith(<<"b", "=", "1", "&", "a", "b", "=", "2">>)
    /\ DOMAIN last_request[1].headers = {"Authorization", "Content-Type"}
    /\ HeaderField(Authorization, ",expires=") = Some(<<"6", "0", "1">>)

\* The last segment of a signed message.
LastSegment(msg) ==
    LET segments == Split(msg, "\n")
    IN  segments[Len(segments)]

\* C15: the step that sends a request signs it with the time of that step: the
\* header's expires is that time in whole seconds plus 600, the message ends
\* with the same digits, and the header differs from the one of the request
\* before whenever the database or the second differs.
C15_EveryRequestIsSignedAfresh ==
    [][(pc = "post" /\ pc' # "post") =>
          /\ last_request'[1].url = exoscale_api_base_url \o database_name[1]
          /\ IsDecimalOf(HeaderField(last_request'[1].headers["Authorization"],
                                     ",expires=")[1],
                         (now \div TicksPerSecond) + 600)
          /\ LastSegment(signing'[1].msg)
                 = HeaderField(last_request'[1].headers["Authorization"], ",expires=")[1]
          /\ (/\ last_request # None
              /\ \/ last_request[1].url # last_request'[1].url
                 \/ signing[1].at \div TicksPerSecond # now \div TicksPerSecond)
                 => last_request'[1].headers["Authorization"]
                        # last_request[1].headers["Authorization"]]_vars

\* C15 happens: the second request of a cycle has been sent one second after the
\* clock's start, the first one having set its gauges.
C15_Witness ==
    /\ pc = "status"
    /\ Len(requested) = 2
    /\ now = TicksPerSecond
    /\ signing[1].at = now
    /\ HeaderField(Authorization, ",expires=") = Some(<<"6", "0", "1">>)
    /\ before[1].written # [n \in GaugeSet |-> NoChildren]

\* The database of the request sent last.
Fetched == requested[Len(requested)]

\* The log has one more record: an ERROR that names `database`.
OneErrorFor(database) ==
    /\ Len(cycle_log') = Len(cycle_log) + 1
    /\ SubSeq(cycle_log', 1, Len(cycle_log)) = cycle_log
    /\ cycle_log'[Len(cycle_log')].level = "ERROR"
    /\ cycle_log'[Len(cycle_log')].database = Some(database)

\* C16: a fetch that ends in a status other than 200 or in an exception is
\* logged once, as an ERROR that names the database of that fetch; the step that
\* raises logs nothing itself; and between two fetches the cycle's log has one
\* record for every request sent, each naming the database of its request.
C16_EachFailureIsReportedOnceForItsDatabase ==
    /\ [][/\ (pc = "status" /\ response[1].status_code # 200 /\ pc' # pc)
             => OneErrorFor(Fetched)
          /\ (pc = "except" /\ pc' # pc)
             => (OneErrorFor(Fetched) /\ pc' = "sleep")
          /\ (pc' = "except" /\ pc # pc')
             => (cycle_log' = cycle_log /\ requested' # <<>>)]_vars
    /\ [](pc \in {"for", "sleep"} =>
             /\ Len(cycle_log) = Len(requested)
             /\ \A i \in 1..Len(requested) : cycle_log[i].database = Some(requested[i]))

\* C16 happens: in a cycle over [A, B, C], A was scraped, B answered with a status
\* other than 200 and the request for C raised: one ERROR for B, one for C.
C16_Witness ==
    /\ pc = "sleep"
    /\ requested = ListABC
    /\ Len(cycle_log) = 3
    /\ cycle_log[1].level = "INFO"
    /\ cycle_log[2].what = "status" /\ cycle_log[2].database = Some(<<"B">>)
    /\ cycle_log[3].what = "exception" /\ cycle_log[3].database = Some(<<"C">>)

\* C17: no step of the poll of a database changes a series of another database,
\* and when a cycle sleeps every series exposed belongs to a database that has
\* been polled with success and holds the value of the last such poll.
C17_SeriesHoldTheLastSuccessfulPoll ==
    /\ [][\A n \in GaugeSet : \A label \in DOMAIN gauges[n] :
              (database_name = None \/ label # database_name[1])
                  => (label \in DOMAIN gauges'[n] /\ gauges'[n][label] = gauges[n][label])]_vars
    /\ [](pc = "sleep" =>
             \A i \in Metrics : \A label \in DOMAIN gauges[GaugeNames[i]] :
                 /\ label \in DOMAIN polled
                 /\ gauges[GaugeNames[i]][label] = polled[label][i])

====
